---- MODULE Spec2Model ----
(***************************************************************************)
(* A model of the self-meter crate: the Meter (src/lib.rs), its lifecycle  *)
(* and thread registry (src/meter.rs), the scanner (src/scan.rs) and the   *)
(* report engine (src/report.rs).                                          *)
(*                                                                         *)
(* The text of the /proc files is the input of scan().  It is modelled by  *)
(* what the readers extract from it: the outcome of reading /proc/uptime   *)
(* and the stat files, and the lines of the status and io files as         *)
(* (key, tokens) pairs, a token being a digit string or another word.      *)
(* parse_uptime is modelled on texts, sequences of characters, and         *)
(* Meter::new by what it meets when it runs.                               *)
(* u64 arithmetic that underflows panics (overflow checks on); f32 values  *)
(* are kept as exact fractions, with inf, -inf and NaN for divisions by 0. *)
(***************************************************************************)
EXTENDS Integers, Sequences, FiniteSets, TLC

VARIABLES
    snapshots,          \* Meter.snapshots: VecDeque<Snapshot>, oldest first
    thread_names,       \* Meter.thread_names: HashMap<Pid, String>
    memory_rss_peak,    \* Meter.memory_rss_peak
    memory_swap_peak,   \* Meter.memory_swap_peak
    now,                \* the clock read by Instant::now(), one tick per scan
    result,             \* what the last scan() returned
    history,            \* ghost: one entry per committed Snapshot, in order
    sampled,            \* ghost: per id, commits that read it since it was
                        \*        last untracked (counted up to 2)
    untracked,          \* ghost: ids that untrack_thread removed from a
                        \*        retained Snapshot
    meter,              \* what Meter::new returned, with Meter.num_cpus
    opened,             \* ghost: the files the last scan() read, in order
    text,               \* the argument of the last call of a parser
    parsed              \* and what the parser returned

vars == <<snapshots, thread_names, memory_rss_peak, memory_swap_peak,
          now, result, history, sampled, untracked,
          meter, opened, text, parsed>>

----------------------------------------------------------------------------
(* Bounds of the model *)

MaxScans == 12          \* scan() calls in a behaviour of Spec
MaxFailed == 2          \* of which failing ones
MaxScansData == 2       \* scan() calls in a behaviour of SpecData
MaxUptime == 1          \* largest /proc/uptime reading in SpecData
OnlineCpus == 2         \* CPUs the system has online
MaxScansCpu == 3        \* scan() calls in a behaviour of SpecCpu
MaxIdle == 3            \* largest idle time /proc/uptime shows in SpecCpu
MaxTicks == 1           \* largest user time of the process in SpecCpu
MaxText == 5            \* longest text drawn from Chars in SpecParse
MaxScansMem == 1        \* scan() calls in a behaviour of SpecMem
MaxScansOrder == 1      \* scan() calls in a behaviour of SpecOrder
MaxFields == 16         \* most fields after the name of a stat line, SpecStat
MaxScansRecycle == 11   \* scan() calls in a behaviour of SpecRecycle

Tids == {1, 2}          \* thread ids the caller may register
MainTids == {1}         \* those registered in Spec
Names == {"main", "worker"}
NoTid == 0

(* Program constants *)

num_snapshots == 10

----------------------------------------------------------------------------
(* Values *)

ThreadInfoNew ==
    [user_time |-> 0, system_time |-> 0,
     child_user_time |-> 0, child_system_time |-> 0]

SnapshotNew(threads) ==
    [instant |-> 0,
     uptime |-> 0, idle_time |-> 0,
     process |-> ThreadInfoNew,
     memory_rss |-> 0, memory_virtual |-> 0,
     memory_virtual_peak |-> 0, memory_swap |-> 0,
     read_bytes |-> 0, write_bytes |-> 0,
     read_ops |-> 0, write_ops |-> 0,
     read_disk_bytes |-> 0, write_disk_bytes |-> 0,
     write_cancelled_bytes |-> 0,
     threads |-> [t \in DOMAIN threads |-> ThreadInfoNew]]

(* Error: the value scan() returns.  kind "Ok" is Ok(()); the other kinds  *)
(* are the variants of Error, err the variant of the source's own error    *)
(* and tid the id ThreadStat carries (NoTid for the others).               *)
Ok == [kind |-> "Ok", tid |-> NoTid, err |-> "none"]
Error(kind, tid, err) == [kind |-> kind, tid |-> tid, err |-> err]

(* What Meter::new returned: nothing yet, Ok(Meter) with the Meter's       *)
(* num_cpus, or Err(res)                                                   *)
NoMeter == [state |-> "none", res |-> Ok, num_cpus |-> 0]
Built(cpus) == [state |-> "built", res |-> Ok, num_cpus |-> cpus]
Refused(err) == [state |-> "refused", res |-> err, num_cpus |-> 0]

(* Meter.num_cpus *)
num_cpus == meter.num_cpus

(* A file scan() reads: /proc/uptime, /proc/self/stat, the stat file of    *)
(* thread tid ("task"), /proc/self/status, /proc/self/io                   *)
Src(name, tid) == [src |-> name, tid |-> tid]

(* What a parser returns: Ok(val) or Err(err) *)
Value(val) == [err |-> "none", val |-> val]
Failure(err) == [err |-> err, val |-> 0]

(* Tokens of a line of text *)
Num(n) == [digits |-> TRUE, val |-> n, txt |-> ""]
Word(s) == [digits |-> FALSE, val |-> 0, txt |-> s]

Last(s) == s[Len(s)]
Max(a, b) == IF a > b THEN a ELSE b

----------------------------------------------------------------------------
(* src/scan.rs: the readers *)

(* A text is a sequence of characters.  str::parse::<u64>: an optional    *)
(* "+", then one decimal digit at least and nothing else; the texts of    *)
(* the model are too short for a u64 to overflow                           *)
Digits == {"0", "1", "2", "3", "4", "5", "6", "7", "8", "9"}

DigitValue(c) ==
    CASE c = "0" -> 0 [] c = "1" -> 1 [] c = "2" -> 2 [] c = "3" -> 3
      [] c = "4" -> 4 [] c = "5" -> 5 [] c = "6" -> 6 [] c = "7" -> 7
      [] c = "8" -> 8 [] c = "9" -> 9

RECURSIVE DecimalValue(_)
DecimalValue(s) ==
    IF s = <<>> THEN 0
    ELSE DecimalValue(SubSeq(s, 1, Len(s) - 1)) * 10 + DigitValue(Last(s))

parse_u64(s) ==
    LET body == IF s # <<>> /\ s[1] = "+" THEN Tail(s) ELSE s IN
    IF body = <<>> \/ \E i \in DOMAIN body : body[i] \notin Digits
    THEN Failure("ParseInt")
    ELSE Value(DecimalValue(body))

(* value.find('.'): the index of the first dot, 0 for None *)
FindDot(s) ==
    IF \E i \in DOMAIN s : s[i] = "."
    THEN CHOOSE i \in DOMAIN s :
             s[i] = "." /\ \A j \in 1..(i - 1) : s[j] # "."
    ELSE 0

parse_uptime(value) ==
    IF Len(value) <= 3 THEN Failure("BadFormat")
    ELSE LET dot == FindDot(value) IN
         IF dot = 0 THEN Failure("BadFormat")
         ELSE LET integer == SubSeq(value, 1, dot - 1)
                  decimals == SubSeq(value, dot, Len(value))
                  int == parse_u64(integer)
                  dec == parse_u64(Tail(decimals))
              IN  IF Len(decimals) = 1 + 1
                  THEN IF int.err # "none" THEN int
                       ELSE IF dec.err # "none" THEN dec
                       ELSE Value(int.val * 100 + dec.val * 10)
                  ELSE IF Len(decimals) = 1 + 2
                  THEN IF int.err # "none" THEN int
                       ELSE IF dec.err # "none" THEN dec
                       ELSE Value(int.val * 100 + dec.val)
                  ELSE Failure("BadFormat")

(* text.parse::<u64>() of one token *)
ParseU64(tok) ==
    IF tok.digits THEN [err |-> "none", val |-> tok.val]
    ELSE [err |-> "ParseInt", val |-> 0]

(* as parse_memory, whatever the unit *)
parse_memory_any_unit(toks) ==
    IF Len(toks) = 0 THEN [err |-> "BadFormat", val |-> 0]
    ELSE LET v == ParseU64(toks[1]) IN
         IF v.err # "none" THEN v
         ELSE [err |-> "none", val |-> v.val * 1024]

parse_memory(toks) ==
    IF Len(toks) = 0 THEN [err |-> "BadFormat", val |-> 0]
    ELSE LET v == ParseU64(toks[1]) IN
         IF v.err # "none" THEN v
         ELSE IF Len(toks) >= 2 /\ toks[2] = Word("kB")
              THEN [err |-> "none", val |-> v.val * 1024]
              ELSE [err |-> "BadUnit", val |-> 0]

MemoryKeys == {"VmPeak", "VmSize", "VmRSS", "VmSwap"}

MemoryField(key, snap, val) ==
    CASE key = "VmPeak" -> [snap EXCEPT !.memory_virtual_peak = val]
      [] key = "VmSize" -> [snap EXCEPT !.memory_virtual = val]
      [] key = "VmRSS"  -> [snap EXCEPT !.memory_rss = val]
      [] key = "VmSwap" -> [snap EXCEPT !.memory_swap = val]

(* The loop of read_memory over the lines from the i-th on *)
RECURSIVE MemoryLines(_, _, _)
MemoryLines(lines, i, snap) ==
    IF i > Len(lines) THEN [res |-> Ok, snap |-> snap]
    ELSE IF lines[i].key \in MemoryKeys
         THEN LET v == parse_memory(lines[i].toks) IN
              IF v.err # "none"
              THEN [res |-> Error("Status", NoTid, v.err), snap |-> snap]
              ELSE MemoryLines(lines, i + 1,
                               MemoryField(lines[i].key, snap, v.val))
         ELSE MemoryLines(lines, i + 1, snap)

read_memory(status, snap) ==
    IF status.err # "none"
    THEN [res |-> Error("Status", NoTid, status.err), snap |-> snap]
    ELSE MemoryLines(status.lines, 1, snap)

IoKeys == {"rchar", "wchar", "syscr", "syscw",
           "read_bytes", "write_bytes", "cancelled_write_bytes"}

IoField(key, snap, val) ==
    CASE key = "rchar" -> [snap EXCEPT !.read_bytes = val]
      [] key = "wchar" -> [snap EXCEPT !.write_bytes = val]
      [] key = "syscr" -> [snap EXCEPT !.read_ops = val]
      [] key = "syscw" -> [snap EXCEPT !.write_ops = val]
      [] key = "read_bytes" -> [snap EXCEPT !.read_disk_bytes = val]
      [] key = "write_bytes" -> [snap EXCEPT !.write_disk_bytes = val]
      [] key = "cancelled_write_bytes"
           -> [snap EXCEPT !.write_cancelled_bytes = val]

(* The loop of read_io over the lines from the i-th on; a line's text is   *)
(* trimmed and parsed whole, so it must be one digit string                *)
RECURSIVE IoLines(_, _, _)
IoLines(lines, i, snap) ==
    IF i > Len(lines) THEN [res |-> Ok, snap |-> snap]
    ELSE IF lines[i].key \in IoKeys
         THEN LET v == IF Len(lines[i].toks) = 1
                       THEN ParseU64(lines[i].toks[1])
                       ELSE [err |-> "ParseInt", val |-> 0] IN
              IF v.err # "none"
              THEN [res |-> Error("IoStat", NoTid, v.err), snap |-> snap]
              ELSE IoLines(lines, i + 1, IoField(lines[i].key, snap, v.val))
         ELSE IoLines(lines, i + 1, snap)

read_io(io, snap) ==
    IF io.err # "none"
    THEN [res |-> Error("IoStat", NoTid, io.err), snap |-> snap]
    ELSE IoLines(io.lines, 1, snap)

(* as ThreadStats, an id whose read fails being skipped *)
RECURSIVE ThreadStatsSkip(_, _, _, _)
ThreadStatsSkip(tstat, order, i, threads) ==
    IF i > Len(order) THEN [res |-> Ok, threads |-> threads]
    ELSE LET tid == order[i] IN
         IF tstat[tid].err # "none"
         THEN ThreadStatsSkip(tstat, order, i + 1, threads)
         ELSE ThreadStatsSkip(tstat, order, i + 1,
                  [t \in DOMAIN threads \cup {tid} |->
                      IF t = tid THEN tstat[tid].info ELSE threads[t]])

(* as ThreadStats, the error carrying the first id of the iteration *)
RECURSIVE ThreadStatsFirstId(_, _, _, _)
ThreadStatsFirstId(tstat, order, i, threads) ==
    IF i > Len(order) THEN [res |-> Ok, threads |-> threads]
    ELSE LET tid == order[i] IN
         IF tstat[tid].err # "none"
         THEN [res |-> Error("ThreadStat", order[1], tstat[tid].err),
               threads |-> threads]
         ELSE ThreadStatsFirstId(tstat, order, i + 1,
                  [t \in DOMAIN threads \cup {tid} |->
                      IF t = tid THEN tstat[tid].info ELSE threads[t]])

(* The loop of read_cpu_times over thread_names, in the order the HashMap  *)
(* iterates (order), from the i-th id on                                   *)
RECURSIVE ThreadStats(_, _, _, _)
ThreadStats(tstat, order, i, threads) ==
    IF i > Len(order) THEN [res |-> Ok, threads |-> threads]
    ELSE LET tid == order[i] IN
         IF tstat[tid].err # "none"
         THEN [res |-> Error("ThreadStat", tid, tstat[tid].err),
               threads |-> threads]
         ELSE ThreadStats(tstat, order, i + 1,
                  [t \in DOMAIN threads \cup {tid} |->
                      IF t = tid THEN tstat[tid].info ELSE threads[t]])

read_cpu_times(inp, order, snap) ==
    IF inp.uptime.err # "none"
    THEN [res |-> Error("Uptime", NoTid, inp.uptime.err), snap |-> snap]
    ELSE LET s1 == [snap EXCEPT !.uptime = inp.uptime.uptime,
                                !.idle_time = inp.uptime.idle_time] IN
         IF inp.stat.err # "none"
         THEN [res |-> Error("Stat", NoTid, inp.stat.err), snap |-> s1]
         ELSE LET s2 == [s1 EXCEPT !.process = inp.stat.info]
                  th == ThreadStats(inp.tstat, order, 1, s2.threads) IN
              [res |-> th.res, snap |-> [s2 EXCEPT !.threads = th.threads]]

----------------------------------------------------------------------------
(* src/meter.rs: construction and the thread registry *)

NotParsed == Failure("NotParsed")

(* What Meter::new meets: whether the CPUs of the system can be counted,  *)
(* the usize num_cpus::get() returns (a count of its own choosing when    *)
(* they cannot), and the outcome of File::open("/proc/self/io")           *)
Environments ==
    [found : BOOLEAN, get : 1..OnlineCpus, io : {"none", "Io"}]

(* Meter::new, that is Meter::_new *)
new(env) ==
    /\ meter = NoMeter
    /\ meter' = IF env.io # "none"
                THEN Refused(Error("IoStat", NoTid, env.io))
                ELSE Built(env.get)
    /\ snapshots' = <<>>
    /\ thread_names' = [t \in {} |-> "main"]
    /\ memory_rss_peak' = 0
    /\ memory_swap_peak' = 0
    /\ UNCHANGED <<now, result, history, sampled, untracked,
                   opened, text, parsed>>

Init ==
    /\ snapshots = <<>>
    /\ thread_names = [t \in {} |-> "main"]
    /\ memory_rss_peak = 0
    /\ memory_swap_peak = 0
    /\ now = 0
    /\ result = Ok
    /\ history = <<>>
    /\ sampled = [t \in Tids |-> 0]
    /\ untracked = {}
    /\ meter = Built(OnlineCpus)
    /\ opened = <<>>
    /\ text = <<>>
    /\ parsed = NotParsed

(* as Insert, the other ids of the map being forgotten *)
InsertAlone(map, tid, name) == [t \in {tid} |-> name]

(* HashMap::insert *)
Insert(map, tid, name) ==
    [t \in DOMAIN map \cup {tid} |-> IF t = tid THEN name ELSE map[t]]

(* HashMap::remove *)
Remove(map, tid) == [t \in DOMAIN map \ {tid} |-> map[t]]

track_thread(tid, name) ==
    /\ thread_names' = Insert(thread_names, tid, name)
    /\ UNCHANGED <<snapshots, memory_rss_peak, memory_swap_peak,
                   now, result, history, sampled, untracked,
                   meter, opened, text, parsed>>

PurgeNothing(store, tid) == store

(* as PurgeThread, the entries of all ids being removed *)
PurgeEveryThread(store, tid) ==
    [i \in 1..Len(store) |->
        [store[i] EXCEPT !.threads = [t \in {} |-> ThreadInfoNew]]]

(* as PurgeThread, for the most recent Snapshot only *)
PurgeLatest(store, tid) ==
    [i \in 1..Len(store) |->
        IF i = Len(store)
        THEN [store[i] EXCEPT !.threads = Remove(store[i].threads, tid)]
        ELSE store[i]]

(* The loop of untrack_thread over the retained Snapshots *)
PurgeThread(store, tid) ==
    [i \in 1..Len(store) |->
        [store[i] EXCEPT !.threads = Remove(store[i].threads, tid)]]

untrack_thread(tid) ==
    /\ thread_names' = Remove(thread_names, tid)
    /\ snapshots' = PurgeThread(snapshots, tid)
    /\ sampled' = [sampled EXCEPT ![tid] = 0]
    /\ untracked' =
           IF \E i \in 1..Len(snapshots) : tid \in DOMAIN snapshots[i].threads
           THEN untracked \cup {tid} ELSE untracked
    /\ UNCHANGED <<memory_rss_peak, memory_swap_peak, now, result, history,
                   meter, opened, text, parsed>>

----------------------------------------------------------------------------
(* src/scan.rs: Meter::scan *)

AtCapacityLate(len) == len > num_snapshots

(* as AtCapacity, for a Store of two Snapshots *)
AtCapacityOfTwo(len) == len >= 2

AtCapacity(len) == len >= num_snapshots

(* The Snapshot scan() fills: the oldest one, popped, or a new one *)
ScratchSnapshot ==
    IF AtCapacity(Len(snapshots)) THEN Head(snapshots)
    ELSE SnapshotNew(thread_names)

(* self.snapshots after the first statement of scan() *)
AfterPop ==
    IF AtCapacity(Len(snapshots)) THEN Tail(snapshots) ELSE snapshots

(* as ReadAll, the memory counters being read first *)
ReadAllMemoryFirst(inp, order, snap) ==
    LET r1 == read_memory(inp.status, snap) IN
    IF r1.res.kind # "Ok" THEN r1
    ELSE LET r2 == read_cpu_times(inp, order, r1.snap) IN
         IF r2.res.kind # "Ok" THEN r2
         ELSE read_io(inp.io, r2.snap)

(* The three try!() reads of scan(), the first error returned at once *)
ReadAll(inp, order, snap) ==
    LET r1 == read_cpu_times(inp, order, snap) IN
    IF r1.res.kind # "Ok" THEN r1
    ELSE LET r2 == read_memory(inp.status, r1.snap) IN
         IF r2.res.kind # "Ok" THEN r2
         ELSE read_io(inp.io, r2.snap)

(* ghost: the thread stat files the loop of read_cpu_times reads, from    *)
(* the i-th id of the iteration on                                         *)
RECURSIVE ThreadsRead(_, _, _)
ThreadsRead(tstat, order, i) ==
    IF i > Len(order) THEN <<>>
    ELSE <<Src("task", order[i])>> \o
         (IF tstat[order[i]].err # "none" THEN <<>>
          ELSE ThreadsRead(tstat, order, i + 1))

(* ghost: the files read_cpu_times reads *)
CpuTimesRead(inp, order) ==
    <<Src("uptime", NoTid)>> \o
    (IF inp.uptime.err # "none" THEN <<>>
     ELSE <<Src("stat", NoTid)>> \o
          (IF inp.stat.err # "none" THEN <<>>
           ELSE ThreadsRead(inp.tstat, order, 1)))

(* ghost: the files the three try!() reads of scan() read *)
ReadTrace(inp, order, snap) ==
    LET r1 == read_cpu_times(inp, order, snap) IN
    CpuTimesRead(inp, order) \o
    (IF r1.res.kind # "Ok" THEN <<>>
     ELSE <<Src("status", NoTid)>> \o
          (IF read_memory(inp.status, r1.snap).res.kind # "Ok" THEN <<>>
           ELSE <<Src("io", NoTid)>>))

UpdateLatest(peak, value) == value

(* as UpdatePeak, a peak once set being kept *)
UpdateUnset(peak, value) == IF peak = 0 THEN value ELSE peak

UpdatePeak(peak, value) == IF value > peak THEN value ELSE peak

PushFront(store, snap) == <<snap>> \o store

PushBack(store, snap) == Append(store, snap)

Kept(store, snap) == Append(store, snap)

(* self.snapshots after a try!() of scan() returned the error: the scratch *)
(* Snapshot is dropped                                                     *)
Dropped(store, snap) == store

(* ghost: what a commit adds to history *)
Committed(snap) ==
    [instant |-> snap.instant,
     memory_rss |-> snap.memory_rss,
     memory_swap |-> snap.memory_swap]

Scan(inp, order) ==
    LET snap == [ScratchSnapshot EXCEPT !.instant = now + 1]
        r == ReadAll(inp, order, snap)
    IN  /\ now' = now + 1
        /\ result' = r.res
        /\ IF r.res.kind = "Ok"
           THEN /\ memory_rss_peak' =
                       UpdatePeak(memory_rss_peak, r.snap.memory_rss)
                /\ memory_swap_peak' =
                       UpdatePeak(memory_swap_peak, r.snap.memory_swap)
                /\ snapshots' = PushBack(AfterPop, r.snap)
                /\ history' = Append(history, Committed(r.snap))
                /\ sampled' =
                       [t \in Tids |->
                           IF t \in DOMAIN thread_names
                              /\ inp.tstat[t].err = "none"
                              /\ sampled[t] < 2
                           THEN sampled[t] + 1 ELSE sampled[t]]
           ELSE /\ snapshots' = Dropped(AfterPop, r.snap)
                /\ UNCHANGED <<memory_rss_peak, memory_swap_peak,
                               history, sampled>>
        /\ opened' = ReadTrace(inp, order, snap)
        /\ UNCHANGED <<thread_names, untracked, meter, text, parsed>>

----------------------------------------------------------------------------
(* src/report.rs *)

F32(n, d) == [kind |-> "num", n |-> n, d |-> d]
NaN == [kind |-> "NaN", n |-> 0, d |-> 1]
Inf == [kind |-> "inf", n |-> 0, d |-> 1]
NegInf == [kind |-> "-inf", n |-> 0, d |-> 1]

(* n as f32 / d as f32, for d >= 0 *)
FDiv(n, d) ==
    IF d # 0 THEN F32(n, d)
    ELSE IF n = 0 THEN NaN ELSE IF n > 0 THEN Inf ELSE NegInf

IsNegative(x) == x.kind = "-inf" \/ (x.kind = "num" /\ x.n < 0)

(* as GlobalCpuUsage, without the clamp *)
GlobalCpuUsageRaw(idle, centisecs) ==
    LET total == centisecs * num_cpus IN
    IF total # 0 THEN F32(100 * (total - idle), total)
    ELSE IF idle = 0 THEN NaN ELSE NegInf

(* 100.0 * (1.0 - idle as f32 / (centisecs * num_cpus as f32)), then the   *)
(* clamp "if cpu_usage < 0. { cpu_usage = 0. }"                            *)
GlobalCpuUsage(idle, centisecs) ==
    LET total == centisecs * num_cpus
        usage == IF total # 0 THEN F32(100 * (total - idle), total)
                 ELSE IF idle = 0 THEN NaN ELSE NegInf
    IN  IF IsNegative(usage) THEN F32(0, 1) ELSE usage

OwnTime(info) == info.user_time + info.system_time
GrossTime(info) ==
    info.user_time + info.system_time +
    info.child_user_time + info.child_system_time

(* The u64 subtractions of report(); one that underflows panics *)
ReportUnderflows(last, prev) ==
    \/ last.uptime < prev.uptime
    \/ last.idle_time < prev.idle_time
    \/ OwnTime(last.process) < OwnTime(prev.process)
    \/ GrossTime(last.process) < GrossTime(prev.process)
    \/ last.read_disk_bytes < prev.read_disk_bytes
    \/ last.write_disk_bytes < prev.write_disk_bytes
    \/ last.write_cancelled_bytes < prev.write_cancelled_bytes
    \/ last.read_bytes < prev.read_bytes
    \/ last.write_bytes < prev.write_bytes
    \/ last.read_ops < prev.read_ops
    \/ last.write_ops < prev.write_ops

NoReport ==
    [timestamp |-> 0, duration |-> 0, system_uptime |-> 0,
     global_cpu_usage |-> NaN, process_cpu_usage |-> NaN,
     gross_cpu_usage |-> NaN,
     memory_rss |-> 0, memory_virtual |-> 0, memory_swap |-> 0,
     memory_rss_peak |-> 0, memory_virtual_peak |-> 0,
     memory_swap_peak |-> 0,
     disk_read |-> NaN, disk_write |-> NaN, disk_cancelled |-> NaN,
     io_read |-> NaN, io_write |-> NaN,
     io_read_ops |-> NaN, io_write_ops |-> NaN]

(* The Report built from the two most recent Snapshots; rates are          *)
(* delta / (centisecs / 100.0)                                             *)
ReportValue(last, prev, rss_peak, swap_peak) ==
    LET centisecs == last.uptime - prev.uptime IN
    [timestamp |-> last.instant,
     duration |-> last.instant - prev.instant,
     system_uptime |-> last.uptime * 10,
     global_cpu_usage |->
         GlobalCpuUsage(last.idle_time - prev.idle_time, centisecs),
     process_cpu_usage |->
         FDiv(100 * (OwnTime(last.process) - OwnTime(prev.process)),
              centisecs),
     gross_cpu_usage |->
         FDiv(100 * (GrossTime(last.process) - GrossTime(prev.process)),
              centisecs),
     memory_rss |-> last.memory_rss,
     memory_virtual |-> last.memory_virtual,
     memory_swap |-> last.memory_swap,
     memory_rss_peak |-> rss_peak,
     memory_virtual_peak |-> last.memory_virtual_peak,
     memory_swap_peak |-> swap_peak,
     disk_read |->
         FDiv(100 * (last.read_disk_bytes - prev.read_disk_bytes),
              centisecs),
     disk_write |->
         FDiv(100 * (last.write_disk_bytes - prev.write_disk_bytes),
              centisecs),
     disk_cancelled |->
         FDiv(100 * (last.write_cancelled_bytes
                        - prev.write_cancelled_bytes), centisecs),
     io_read |-> FDiv(100 * (last.read_bytes - prev.read_bytes), centisecs),
     io_write |->
         FDiv(100 * (last.write_bytes - prev.write_bytes), centisecs),
     io_read_ops |-> FDiv(100 * (last.read_ops - prev.read_ops), centisecs),
     io_write_ops |->
         FDiv(100 * (last.write_ops - prev.write_ops), centisecs)]

(* as ReportOf, with no data for an interval of zero length *)
ReportOfSpaced(store, rss_peak, swap_peak) ==
    IF Len(store) < 2 THEN [kind |-> "None", val |-> NoReport]
    ELSE LET n == Len(store) IN
         IF store[n].uptime = store[n - 1].uptime
         THEN [kind |-> "None", val |-> NoReport]
         ELSE [kind |-> "Some",
               val |-> ReportValue(store[n], store[n - 1],
                                   rss_peak, swap_peak)]

(* as ReportOf, the interval starting at the oldest Snapshot *)
ReportOfOldest(store, rss_peak, swap_peak) ==
    IF Len(store) < 2 THEN [kind |-> "None", val |-> NoReport]
    ELSE IF ReportUnderflows(Last(store), store[1])
         THEN [kind |-> "Panic", val |-> NoReport]
         ELSE [kind |-> "Some",
               val |-> ReportValue(Last(store), store[1],
                                   rss_peak, swap_peak)]

(* Meter::report on a Store and the peak trackers *)
ReportOf(store, rss_peak, swap_peak) ==
    IF Len(store) < 2 THEN [kind |-> "None", val |-> NoReport]
    ELSE LET n == Len(store)
             last == store[n]
             prev == store[n - 1]
         IN  IF ReportUnderflows(last, prev)
             THEN [kind |-> "Panic", val |-> NoReport]
             ELSE [kind |-> "Some",
                   val |-> ReportValue(last, prev, rss_peak, swap_peak)]

report == ReportOf(snapshots, memory_rss_peak, memory_swap_peak)

(* The item next() returns for pid; an underflowing delta panics *)
ThreadItem(name, lth, pth, centisecs) ==
    IF lth.user_time < pth.user_time \/ lth.system_time < pth.system_time
    THEN [name |-> name, panic |-> TRUE,
          cpu_usage |-> NaN, system_cpu |-> NaN, user_cpu |-> NaN]
    ELSE LET udelta == lth.user_time - pth.user_time
             sdelta == lth.system_time - pth.system_time
         IN  [name |-> name, panic |-> FALSE,
              cpu_usage |-> FDiv(100 * (udelta + sdelta), centisecs),
              system_cpu |-> FDiv(100 * sdelta, centisecs),
              user_cpu |-> FDiv(100 * udelta, centisecs)]

Skipped ==
    [some |-> FALSE,
     item |-> ThreadItem("main", ThreadInfoNew, ThreadInfoNew, 0)]

(* as IterStep, an id that is missing from prev counted from zero *)
IterStepLastOnly(pid, name, last, prev, centisecs) ==
    IF pid \notin DOMAIN last.threads THEN Skipped
    ELSE [some |-> TRUE,
          item |-> ThreadItem(name, last.threads[pid],
                       IF pid \in DOMAIN prev.threads
                       THEN prev.threads[pid] ELSE ThreadInfoNew,
                       centisecs)]

(* ThreadReportIter::next: one round of the loop, for the entry (pid,      *)
(* name) of the registry: the item returned, or none when it continues     *)
IterStep(pid, name, last, prev, centisecs) ==
    IF pid \notin DOMAIN last.threads THEN Skipped
    ELSE IF pid \notin DOMAIN prev.threads THEN Skipped
    ELSE [some |-> TRUE,
          item |-> ThreadItem(name, last.threads[pid], prev.threads[pid],
                              centisecs)]

NoItems == [t \in {} |-> Skipped.item]

(* Meter::thread_report on a Store and a registry, the iterator collected  *)
(* into a map from id to item                                              *)
ThreadReportOf(store, names) ==
    IF Len(store) < 2 THEN [kind |-> "None", items |-> NoItems]
    ELSE LET n == Len(store)
             last == store[n]
             prev == store[n - 1]
             centisecs == last.uptime - prev.uptime
         IN  IF last.uptime < prev.uptime
             THEN [kind |-> "Panic", items |-> NoItems]
             ELSE [kind |-> "Some",
                   items |->
                       [t \in {u \in DOMAIN names :
                                  IterStep(u, names[u], last, prev,
                                           centisecs).some} |->
                           IterStep(t, names[t], last, prev,
                                    centisecs).item]]

thread_report == ThreadReportOf(snapshots, thread_names)

----------------------------------------------------------------------------
(* The /proc files scan() reads: what the operating system may show *)

Line(key, toks) == [key |-> key, toks |-> toks]

UptimeOk(uptime, idle) ==
    [err |-> "none", uptime |-> uptime, idle_time |-> idle]
UptimeErr(err) == [err |-> err, uptime |-> 0, idle_time |-> 0]

StatOk(info) == [err |-> "none", info |-> info]
StatErr(err) == [err |-> err, info |-> ThreadInfoNew]

(* as RFind, for the first occurrence *)
FindFirst(s, c) ==
    IF \E i \in DOMAIN s : s[i] = c
    THEN CHOOSE i \in DOMAIN s : s[i] = c /\ \A j \in 1..(i - 1) : s[j] # c
    ELSE 0

(* text_buf.rfind(c): the index of the last c, 0 for None *)
RFind(s, c) ==
    IF \E i \in DOMAIN s : s[i] = c
    THEN CHOOSE i \in DOMAIN s :
             s[i] = c /\ \A j \in (i + 1)..Len(s) : s[j] # c
    ELSE 0

WhiteSpace == {" ", "\n"}

(* str::split_whitespace of s from the i-th character on: cur is the word *)
(* being read, words the ones read before                                  *)
RECURSIVE SplitFrom(_, _, _, _)
SplitFrom(s, i, cur, words) ==
    IF i > Len(s)
    THEN IF cur = <<>> THEN words ELSE Append(words, cur)
    ELSE IF s[i] \in WhiteSpace
         THEN SplitFrom(s, i + 1, <<>>,
                        IF cur = <<>> THEN words ELSE Append(words, cur))
         ELSE SplitFrom(s, i + 1, Append(cur, s[i]), words)

split_whitespace(s) == SplitFrom(s, 1, <<>>, <<>>)

(* iter.nth(k - 1) or iter.next() giving the k-th word, then parse() *)
StatField(words, k) ==
    IF Len(words) < k THEN Failure("BadFormat") ELSE parse_u64(words[k])

(* read_stat on the text of the stat file (the reading of the file is in  *)
(* the err of the input of scan()); the ThreadInfo is what matters when   *)
(* it returns Ok, a Snapshot it has half written being dropped by scan()  *)
read_stat(stat_text) ==
    LET right_paren == RFind(stat_text, ")") IN
    IF right_paren = 0 THEN StatErr("BadFormat")
    ELSE LET words == split_whitespace(
                          SubSeq(stat_text, right_paren + 1, Len(stat_text)))
             user == StatField(words, 12)
             system == StatField(words, 13)
             child_user == StatField(words, 14)
             child_system == StatField(words, 15)
         IN  IF user.err # "none" THEN StatErr(user.err)
             ELSE IF system.err # "none" THEN StatErr(system.err)
             ELSE IF child_user.err # "none" THEN StatErr(child_user.err)
             ELSE IF child_system.err # "none" THEN StatErr(child_system.err)
             ELSE StatOk([user_time |-> user.val,
                          system_time |-> system.val,
                          child_user_time |-> child_user.val,
                          child_system_time |-> child_system.val])

TextOk(lines) == [err |-> "none", lines |-> lines]

(* Cumulative CPU ticks of the process and of thread t at clock n *)
ProcessTicks(n) ==
    [user_time |-> 2 * n, system_time |-> n,
     child_user_time |-> n, child_system_time |-> 0]
ThreadTicks(t, n) ==
    [user_time |-> n, system_time |-> (t - 1) * n,
     child_user_time |-> 0, child_system_time |-> 0]

(* Resident and swapped kB at clock n: neither is monotone *)
RssAt(n) == IF n = 2 THEN 3 ELSE 1 + (n % 2)
SwapAt(n) == IF n = 1 THEN 2 ELSE n % 2

StatusText(n) ==
    TextOk(<<Line("Name", <<Word("meter")>>),
             Line("VmPeak", <<Num(4), Word("kB")>>),
             Line("VmSize", <<Num(3), Word("kB")>>),
             Line("VmRSS", <<Num(RssAt(n)), Word("kB")>>),
             Line("VmSwap", <<Num(SwapAt(n)), Word("kB")>>)>>)

BadStatusText ==
    TextOk(<<Line("VmPeak", <<Num(4), Word("kB")>>),
             Line("VmRSS", <<Num(9), Word("mB")>>)>>)

IoText(n) ==
    TextOk(<<Line("rchar", <<Num(4 * n)>>),
             Line("wchar", <<Num(3 * n)>>),
             Line("syscr", <<Num(2 * n)>>),
             Line("syscw", <<Num(n)>>),
             Line("read_bytes", <<Num(2 * n)>>),
             Line("write_bytes", <<Num(n)>>),
             Line("cancelled_write_bytes", <<Num(n)>>)>>)

BadIoText ==
    TextOk(<<Line("rchar", <<Num(9)>>), Line("wchar", <<Word("x")>>)>>)

(* Every read succeeds, at clock n with the given uptime and idle time *)
GoodInput(n, uptime, idle) ==
    [uptime |-> UptimeOk(uptime, idle),
     stat |-> StatOk(ProcessTicks(n)),
     tstat |-> [t \in Tids |-> StatOk(ThreadTicks(t, n))],
     status |-> StatusText(n),
     io |-> IoText(n)]

(* The reads of g with those of the sources in bad.src and of the threads  *)
(* in bad.tids failing; the stat file of an exited thread cannot be opened *)
Failing(g, bad) ==
    [uptime |-> IF "uptime" \in bad.src THEN UptimeErr("BadFormat")
                ELSE g.uptime,
     stat |-> IF "stat" \in bad.src THEN StatErr("BadFormat") ELSE g.stat,
     tstat |-> [t \in Tids |->
                   IF t \in bad.tids THEN StatErr("Io") ELSE g.tstat[t]],
     status |-> IF "status" \in bad.src THEN BadStatusText ELSE g.status,
     io |-> IF "io" \in bad.src THEN BadIoText ELSE g.io]

Bad(src, tids) == [src |-> src, tids |-> tids]

FailureSets ==
    {Bad({"uptime"}, {}), Bad({"stat"}, {}), Bad({}, {1}),
     Bad({"status"}, {}), Bad({"io"}, {}),
     Bad({"uptime", "stat"}, {}), Bad({"stat"}, {1}),
     Bad({"status"}, {1}), Bad({"status", "io"}, {})}

DataFailureSets ==
    {Bad({"uptime"}, {}), Bad({"stat"}, {}), Bad({}, {1}), Bad({}, {2}),
     Bad({}, {1, 2}), Bad({"io"}, {2})}

(* SpecOrder: one source or two fail at once *)
OrderFailureSets ==
    {bad \in [src : SUBSET {"uptime", "stat", "status", "io"},
              tids : SUBSET Tids] :
        Cardinality(bad.src) + Cardinality(bad.tids) \in {1, 2}}

OrderInputs(n) ==
    {GoodInput(n, n, n)} \cup
    {Failing(GoodInput(n, n, n), bad) : bad \in OrderFailureSets}

(* SpecRecycle: the status file may lack its VmRSS and VmSwap lines and  *)
(* the io file all lines but rchar and wchar                               *)
SparseStatusText(n) ==
    TextOk(<<Line("Name", <<Word("meter")>>),
             Line("VmPeak", <<Num(4), Word("kB")>>),
             Line("VmSize", <<Num(3), Word("kB")>>)>>)

SparseIoText(n) ==
    TextOk(<<Line("rchar", <<Num(4 * n)>>),
             Line("wchar", <<Num(3 * n)>>)>>)

RecycleInputs(n) ==
    {GoodInput(n, n, n),
     [GoodInput(n, n, n) EXCEPT !.status = SparseStatusText(n),
                                !.io = SparseIoText(n)]}

(* Spec: the counters follow the clock *)
ScanInputs(n) ==
    {GoodInput(n, n, n)} \cup
    {Failing(GoodInput(n, n, n), bad) : bad \in FailureSets}

(* SpecData: /proc/uptime shows any time not before the one last seen *)
LastUptime == IF snapshots = <<>> THEN 0 ELSE Last(snapshots).uptime

DataInputs(n) ==
    {GoodInput(n, u, n) : u \in LastUptime..MaxUptime} \cup
    {Failing(GoodInput(n, LastUptime, n), bad) : bad \in DataFailureSets}

(* SpecCpu: uptime, idle time and the user time of the process are any    *)
(* values not below the ones last seen                                     *)
LastIdle == IF snapshots = <<>> THEN 0 ELSE Last(snapshots).idle_time
LastUser == IF snapshots = <<>> THEN 0 ELSE Last(snapshots).process.user_time

CpuInput(n, uptime, idle, user) ==
    [GoodInput(n, uptime, idle) EXCEPT
        !.stat = StatOk([ProcessTicks(n) EXCEPT !.user_time = user])]

CpuInputs(n) ==
    {CpuInput(n, u, i, t) : u \in LastUptime..MaxUptime,
                            i \in LastIdle..MaxIdle,
                            t \in LastUser..MaxTicks}

(* The orders in which a HashMap with the keys S may iterate *)
Orders(S) ==
    {o \in [1..Cardinality(S) -> S] :
        \A i, j \in DOMAIN o : i # j => o[i] # o[j]}

FailedScans == now - Len(history)

(* Spec: one registered thread, a Store that fills up and recycles *)
Next ==
    \/ \E inp \in ScanInputs(now + 1), order \in Orders(DOMAIN thread_names) :
          /\ now < MaxScans
          /\ Scan(inp, order)
          /\ result'.kind # "Ok" => FailedScans < MaxFailed
    \/ \E tid \in MainTids : track_thread(tid, "main")
    \/ \E tid \in MainTids : untrack_thread(tid)

Spec == Init /\ [][Next]_vars

(* SpecData: two threads, two names, a few scans at any uptime *)
NextData ==
    \/ \E inp \in DataInputs(now + 1), order \in Orders(DOMAIN thread_names) :
          /\ now < MaxScansData
          /\ Scan(inp, order)
    \/ \E tid \in Tids, name \in Names : track_thread(tid, name)
    \/ \E tid \in Tids : untrack_thread(tid)

SpecData == Init /\ [][NextData]_vars

(* SpecParse: parse_uptime applied to a text; the texts are the ones of   *)
(* the tests, those of the malformed kinds and every text of at most      *)
(* MaxText characters of Chars                                             *)
Chars == {"0", "7", ".", "+", "x"}

RECURSIVE Texts(_)
Texts(n) ==
    IF n = 0 THEN {<<>>}
    ELSE LET shorter == Texts(n - 1) IN
         shorter \cup {Append(t, c) : t \in shorter, c \in Chars}

UptimeTexts ==
    Texts(MaxText) \cup
    {<<"1", "9", "2", "7", "8", "3", "0", ".", "6", "9">>,
     <<"4", "7", "8", "0", ".", "0">>,
     <<"a", "b", "c">>,
     <<"1", "2", "3", "4", "5">>,
     <<"1", "2", ".", "3", "4", "5">>}

InitParse ==
    /\ snapshots = <<>>
    /\ thread_names = [t \in {} |-> "main"]
    /\ memory_rss_peak = 0
    /\ memory_swap_peak = 0
    /\ now = 0
    /\ result = Ok
    /\ history = <<>>
    /\ sampled = [t \in Tids |-> 0]
    /\ untracked = {}
    /\ meter = Built(OnlineCpus)
    /\ opened = <<>>
    /\ text \in UptimeTexts
    /\ parsed = NotParsed

ParseUptime ==
    /\ parsed = NotParsed
    /\ parsed' = parse_uptime(text)
    /\ UNCHANGED <<snapshots, thread_names, memory_rss_peak,
                   memory_swap_peak, now, result, history, sampled,
                   untracked, meter, opened, text>>

NextParse == ParseUptime

SpecParse == InitParse /\ [][NextParse]_vars

(* SpecStat: read_stat applied to a stat line "7 comm fields": comm is a  *)
(* name in parentheses (or not), the name holding ")" or blanks or not;   *)
(* the first n of the fields "R", ten times "9", user, system, "3", "4"   *)
(* and then "8" follow, with one blank or two between them                 *)
Comms ==
    {<<"(", "a", ")">>, <<"(", "a", ")", ")">>, <<"(", "a", " ", "b", ")">>,
     <<"(", "a", ")", " ", "7", " ", "7", ")">>, <<"a">>}

UserWords == {<<"1">>, <<"2", "0">>, <<"x">>}
SystemWords == {<<"1">>, <<"5">>}

StatWord(k, user, system) ==
    CASE k = 1 -> <<"R">>
      [] k \in 2..11 -> <<"9">>
      [] k = 12 -> user
      [] k = 13 -> system
      [] k = 14 -> <<"3">>
      [] k = 15 -> <<"4">>
      [] OTHER -> <<"8">>

RECURSIVE StatWords(_, _, _)
StatWords(n, user, system) ==
    IF n = 0 THEN <<>>
    ELSE StatWords(n - 1, user, system)
             \o (IF n % 2 = 0 THEN <<" ">> ELSE <<" ", " ">>)
             \o StatWord(n, user, system)

StatLine(comm, n, user, system) ==
    <<"7", " ">> \o comm \o StatWords(n, user, system) \o <<"\n">>

StatTexts ==
    {StatLine(comm, n, user, system) :
        comm \in Comms, n \in 0..MaxFields,
        user \in UserWords, system \in SystemWords}

NotRead == StatErr("NotRead")

InitStat ==
    /\ snapshots = <<>>
    /\ thread_names = [t \in {} |-> "main"]
    /\ memory_rss_peak = 0
    /\ memory_swap_peak = 0
    /\ now = 0
    /\ result = Ok
    /\ history = <<>>
    /\ sampled = [t \in Tids |-> 0]
    /\ untracked = {}
    /\ meter = Built(OnlineCpus)
    /\ opened = <<>>
    /\ text \in StatTexts
    /\ parsed = NotRead

ReadStat ==
    /\ parsed = NotRead
    /\ parsed' = read_stat(text)
    /\ UNCHANGED <<snapshots, thread_names, memory_rss_peak,
                   memory_swap_peak, now, result, history, sampled,
                   untracked, meter, opened, text>>

NextStat == ReadStat

SpecStat == InitStat /\ [][NextStat]_vars

(* SpecMem: scan() with /proc/self/status holding the lines in text: one  *)
(* or two lines, each with a consumed or another key and a size with its  *)
(* unit, a size alone, a word for the size, or nothing                     *)
StatusKeys == MemoryKeys \cup {"VmData"}

StatusTokens ==
    {<<Num(n), Word(u)>> : n \in {1, 1024}, u \in {"kB", "mB", "KB"}}
    \cup {<<Num(1)>>, <<Word("x"), Word("kB")>>, <<>>}

StatusLines == {Line(k, toks) : k \in StatusKeys, toks \in StatusTokens}

StatusTexts ==
    {<<>>} \cup {<<l>> : l \in StatusLines}
    \cup {<<l1, l2>> : l1 \in StatusLines, l2 \in StatusLines}

InitMem ==
    /\ snapshots = <<>>
    /\ thread_names = [t \in {} |-> "main"]
    /\ memory_rss_peak = 0
    /\ memory_swap_peak = 0
    /\ now = 0
    /\ result = Ok
    /\ history = <<>>
    /\ sampled = [t \in Tids |-> 0]
    /\ untracked = {}
    /\ meter = Built(OnlineCpus)
    /\ opened = <<>>
    /\ text \in StatusTexts
    /\ parsed = NotParsed

MemInput(n) == [GoodInput(n, n, n) EXCEPT !.status = TextOk(text)]

NextMem ==
    /\ now < MaxScansMem
    /\ Scan(MemInput(now + 1), <<>>)

SpecMem == InitMem /\ [][NextMem]_vars

(* SpecNew: the Meter is constructed, then scans as in SpecCpu *)
InitNew ==
    /\ snapshots = <<>>
    /\ thread_names = [t \in {} |-> "main"]
    /\ memory_rss_peak = 0
    /\ memory_swap_peak = 0
    /\ now = 0
    /\ result = Ok
    /\ history = <<>>
    /\ sampled = [t \in Tids |-> 0]
    /\ untracked = {}
    /\ meter = NoMeter
    /\ opened = <<>>
    /\ text = <<>>
    /\ parsed = NotParsed

NextNew ==
    \/ \E env \in Environments : new(env)
    \/ \E inp \in CpuInputs(now + 1) :
          /\ meter.state = "built"
          /\ now < MaxScansCpu
          /\ Scan(inp, <<>>)

SpecNew == InitNew /\ [][NextNew]_vars

(* SpecOrder: two threads, a scan in which any one or two sources fail *)
NextOrder ==
    \/ \E inp \in OrderInputs(now + 1), order \in Orders(DOMAIN thread_names) :
          /\ now < MaxScansOrder
          /\ Scan(inp, order)
    \/ \E tid \in Tids, name \in Names : track_thread(tid, name)
    \/ \E tid \in Tids : untrack_thread(tid)

SpecOrder == Init /\ [][NextOrder]_vars

(* SpecRecycle: no registered thread, scans past the capacity of the     *)
(* Store, each reading full or sparse status and io files                 *)
NextRecycle ==
    \E inp \in RecycleInputs(now + 1) :
        /\ now < MaxScansRecycle
        /\ Scan(inp, <<>>)

SpecRecycle == Init /\ [][NextRecycle]_vars

(* SpecCpu: no registered thread, a few scans with any CPU counters *)
NextCpu ==
    \E inp \in CpuInputs(now + 1) :
        /\ now < MaxScansCpu
        /\ Scan(inp, <<>>)

SpecCpu == Init /\ [][NextCpu]_vars

----------------------------------------------------------------------------
(* Properties *)

StoreIds(store, t) == {i \in 1..Len(store) : t \in DOMAIN store[i].threads}

IsScan == now' # now

(* C1: a scan() that returns an error leaves the Store as it was before    *)
(* the call: same length, same Snapshots, same order.                      *)
C1_FailedScanKeepsStore ==
    [][(IsScan /\ result'.kind # "Ok") => snapshots' = snapshots]_vars

(* C2: the Store never holds more than num_snapshots = 10 Snapshots.       *)
C2_StoreBounded == Len(snapshots) <= num_snapshots

C2_Witness ==
    Len(snapshots) = num_snapshots /\ Len(history) > num_snapshots

(* C3: report() and thread_report() return None exactly when the Store     *)
(* holds fewer than two Snapshots, and a value otherwise, also when the    *)
(* uptime of the two most recent Snapshots is the same.                    *)
C3_NoDataIffFewerThanTwo ==
    /\ Len(snapshots) < 2 =>
          report.kind = "None" /\ thread_report.kind = "None"
    /\ Len(snapshots) >= 2 =>
          report.kind = "Some" /\ thread_report.kind = "Some"

C3_Witness ==
    /\ Len(snapshots) >= 2
    /\ Last(snapshots).uptime = snapshots[Len(snapshots) - 1].uptime
    /\ report.kind = "Some"
    /\ report.val.process_cpu_usage.kind = "inf"

(* C4: an id that is not registered is in no retained Snapshot's thread    *)
(* map, and thread_report() has an item for an id only when two commits    *)
(* have read it since it was last untracked.                               *)
C4_UntrackPurges ==
    \A t \in Tids :
        /\ t \notin DOMAIN thread_names => StoreIds(snapshots, t) = {}
        /\ t \in DOMAIN thread_report.items => sampled[t] = 2

C4_Witness ==
    \E t \in untracked :
        /\ t \in DOMAIN thread_names
        /\ sampled[t] = 1
        /\ thread_report.kind = "Some"
        /\ t \notin DOMAIN thread_report.items

(* C5: a registered id that is in fewer than two retained Snapshots has no *)
(* item in thread_report(); an id that has one is in both of the two most  *)
(* recent Snapshots, with the counters its stat file showed at their scans.*)
C5_WarmUpSkipped ==
    \A t \in DOMAIN thread_names :
        /\ Cardinality(StoreIds(snapshots, t)) < 2 =>
              t \notin DOMAIN thread_report.items
        /\ t \in DOMAIN thread_report.items =>
              LET last == Last(snapshots)
                  prev == snapshots[Len(snapshots) - 1]
              IN  /\ t \in DOMAIN last.threads
                  /\ t \in DOMAIN prev.threads
                  /\ last.threads[t] = ThreadTicks(t, last.instant)
                  /\ prev.threads[t] = ThreadTicks(t, prev.instant)

C5_Witness ==
    \E t, u \in DOMAIN thread_names :
        /\ thread_report.kind = "Some"
        /\ StoreIds(snapshots, t) = {Len(snapshots)}
        /\ t \notin DOMAIN thread_report.items
        /\ u \in DOMAIN thread_report.items

(* C6: the Store is the most recent commits, in commit order: a suffix of  *)
(* the history of commits that ends with the latest one.                   *)
C6_StoreIsSuffixOfHistory ==
    LET k == Len(history) - Len(snapshots) IN
    /\ k >= 0
    /\ \A i \in 1..Len(snapshots) :
          /\ snapshots[i].instant = history[k + i].instant
          /\ snapshots[i].memory_rss = history[k + i].memory_rss
    /\ history # <<>> => snapshots # <<>>

C6_Witness ==
    Len(snapshots) = num_snapshots /\ Len(history) = num_snapshots + 2

RECURSIVE MaxRss(_)
MaxRss(h) ==
    IF h = <<>> THEN 0 ELSE Max(Head(h).memory_rss, MaxRss(Tail(h)))

RECURSIVE MaxSwap(_)
MaxSwap(h) ==
    IF h = <<>> THEN 0 ELSE Max(Head(h).memory_swap, MaxSwap(Tail(h)))

(* C7: each peak tracker is the maximum of its memory field over all the   *)
(* commits since construction, 0 when there is none.                       *)
C7_PeakIsMaxOfCommits ==
    /\ memory_rss_peak = MaxRss(history)
    /\ memory_swap_peak = MaxSwap(history)

C7_Witness ==
    /\ Len(history) > Len(snapshots)
    /\ FailedScans > 0
    /\ \A i \in 1..Len(snapshots) :
          /\ snapshots[i].memory_rss < memory_rss_peak
          /\ snapshots[i].memory_swap < memory_swap_peak

FailingIds(inp) == {t \in DOMAIN thread_names : inp.tstat[t].err # "none"}

(* C8: a scan() returns Ok only if the stat read of every registered id    *)
(* succeeded, and the Snapshot it commits then holds the counters read for *)
(* exactly those ids; if the read of a registered id fails, the scan fails *)
(* and commits nothing.                                                    *)
C8_NoThreadSkipped ==
    [][\A inp \in DataInputs(now + 1),
          order \in Orders(DOMAIN thread_names) :
          Scan(inp, order) =>
             /\ result'.kind = "Ok" =>
                   /\ FailingIds(inp) = {}
                   /\ Last(snapshots').threads =
                         [t \in DOMAIN thread_names |-> inp.tstat[t].info]
             /\ FailingIds(inp) # {} =>
                   /\ result'.kind # "Ok"
                   /\ history' = history
                   /\ \A i \in 1..Len(snapshots') :
                         \E j \in 1..Len(snapshots) :
                             snapshots'[i] = snapshots[j]]_vars

C8_Witness ==
    /\ result.kind = "ThreadStat"
    /\ snapshots # <<>>
    /\ DOMAIN Last(snapshots).threads = Tids

(* C9: a scan() that fails on a thread's stat file returns ThreadStat with *)
(* the id of a registered thread whose read failed and that read's error;  *)
(* a failure of /proc/self/stat is returned as Stat, without an id.        *)
C9_ThreadStatNamesFailedThread ==
    [][\A inp \in DataInputs(now + 1),
          order \in Orders(DOMAIN thread_names) :
          Scan(inp, order) =>
             /\ result'.kind = "ThreadStat" =>
                   /\ result'.tid \in FailingIds(inp)
                   /\ result'.err = inp.tstat[result'.tid].err
             /\ (inp.uptime.err = "none" /\ inp.stat.err # "none") =>
                   result' = Error("Stat", NoTid, inp.stat.err)]_vars

C9_Witness ==
    /\ result.kind = "ThreadStat"
    /\ result.tid = 2
    /\ DOMAIN thread_names = Tids

TwoInARow ==
    \E i \in 1..(Len(history) - 1) :
        history[i + 1].instant = history[i].instant + 1

(* C10 as stated: report() and thread_report() return None as long as no   *)
(* two consecutive scans have both succeeded.                              *)
C10_NoDataBeforeTwoInARow ==
    ~TwoInARow => report.kind = "None" /\ thread_report.kind = "None"

(* C10: report() and thread_report() return None as long as fewer than two *)
(* scans have succeeded, in a row or not.                                  *)
C10_NoDataBeforeTwoCommits ==
    Len(history) < 2 => report.kind = "None" /\ thread_report.kind = "None"

C10_Witness ==
    /\ Len(history) = 1
    /\ FailedScans > 0
    /\ report.kind = "None"

(* C11: the global CPU usage of a Report is never negative, and it is 0   *)
(* whenever the idle time grew by more than the uptime delta times the    *)
(* number of CPUs.                                                         *)
IdleDelta == Last(snapshots).idle_time - snapshots[Len(snapshots) - 1].idle_time
UptimeDelta == Last(snapshots).uptime - snapshots[Len(snapshots) - 1].uptime

C11_GlobalCpuNeverNegative ==
    Len(snapshots) >= 2 =>
        /\ report.kind = "Some"
        /\ ~IsNegative(report.val.global_cpu_usage)
        /\ IdleDelta > UptimeDelta * num_cpus
               => report.val.global_cpu_usage = F32(0, 1)

C11_Witness ==
    /\ Len(snapshots) >= 2
    /\ UptimeDelta > 0
    /\ IdleDelta > UptimeDelta * num_cpus
    /\ report.val.global_cpu_usage = F32(0, 1)

(* Texts of the form <digits>.<d> or <digits>.<dd>, and the hundredths    *)
(* they denote                                                             *)
IsDigits(s) == s # <<>> /\ \A i \in DOMAIN s : s[i] \in Digits

IsUptimeForm(s) ==
    \E k \in DOMAIN s :
        /\ s[k] = "."
        /\ IsDigits(SubSeq(s, 1, k - 1))
        /\ IsDigits(SubSeq(s, k + 1, Len(s)))
        /\ Len(s) - k \in {1, 2}

Hundredths(s) ==
    LET k == CHOOSE k \in DOMAIN s : s[k] = "."
        dec == DecimalValue(SubSeq(s, k + 1, Len(s)))
    IN  DecimalValue(SubSeq(s, 1, k - 1)) * 100
            + (IF Len(s) - k = 1 THEN dec * 10 ELSE dec)

(* C12: for every text <digits>.<d> or <digits>.<dd>, parse_uptime        *)
(* returns the integer part times 100 plus the decimals in hundredths.    *)
C12_ParsesUptimeForm ==
    (parsed # NotParsed /\ IsUptimeForm(text))
        => parsed = Value(Hundredths(text))

(* Malformed texts: no dot, a character other than a digit beside the     *)
(* first dot, or not one or two characters after the first dot            *)
IsMalformed(s) ==
    \/ FindDot(s) = 0
    \/ \E i \in DOMAIN s : i # FindDot(s) /\ s[i] \notin Digits
    \/ Len(s) - FindDot(s) \notin {1, 2}

(* C13: parse_uptime returns an error, never a number, for every          *)
(* malformed text.                                                         *)
C13_MalformedIsError ==
    (parsed # NotParsed /\ IsMalformed(text)) => parsed.err # "none"

(* The lines "Key: n kB" and those with another unit; the counter of a    *)
(* consumed key                                                            *)
IsSizeLine(l) ==
    Len(l.toks) = 2 /\ l.toks[1].digits /\ l.toks[2] = Word("kB")

IsBadUnitLine(l) ==
    Len(l.toks) = 2 /\ l.toks[1].digits /\ l.toks[2] # Word("kB")

Consumed(lines) == {i \in DOMAIN lines : lines[i].key \in MemoryKeys}

Counter(snap, key) ==
    CASE key = "VmPeak" -> snap.memory_virtual_peak
      [] key = "VmSize" -> snap.memory_virtual
      [] key = "VmRSS"  -> snap.memory_rss
      [] key = "VmSwap" -> snap.memory_swap

(* C14: a scan whose status lines with a consumed key all read "Key: n kB" *)
(* succeeds, lines with other keys being ignored, and sets the counter of *)
(* each key present to n * 1024, n from the key's last line; a scan whose *)
(* first consumed line not of that form has another unit fails with the   *)
(* Status error BadUnit.                                                   *)
C14_MemoryLines ==
    now >= 1 =>
        /\ (\A i \in Consumed(text) : IsSizeLine(text[i]))
               => /\ result = Ok
                  /\ \A i \in Consumed(text) :
                        (\A j \in Consumed(text) :
                             j > i => text[j].key # text[i].key)
                        => Counter(Last(snapshots), text[i].key)
                               = text[i].toks[1].val * 1024
        /\ (\E i \in Consumed(text) :
                /\ IsBadUnitLine(text[i])
                /\ \A j \in Consumed(text) : j < i => IsSizeLine(text[j]))
               => result = Error("Status", NoTid, "BadUnit")

C14_Witness ==
    /\ now >= 1
    /\ result = Ok
    /\ text = <<Line("VmData", <<Num(1), Word("mB")>>),
                Line("VmRSS", <<Num(1024), Word("kB")>>)>>
    /\ Last(snapshots).memory_rss = 1048576

(* C15: Meter::new returns an error whenever the CPUs of the system       *)
(* cannot be counted; it builds no Meter then.                             *)
C15_NoMeterWithoutCpuCount ==
    [][\A env \in Environments :
          (new(env) /\ ~env.found) => meter'.state = "refused"]_vars

(* C16: track_thread(tid, name) leaves the registry with tid named name   *)
(* and every other id as it was, a second call with the same arguments    *)
(* changes nothing, and the Store and the peak trackers stay as they are. *)
C16_TrackIsUpsert ==
    [][\A tid \in Tids, name \in Names :
          track_thread(tid, name) =>
              /\ DOMAIN thread_names' = DOMAIN thread_names \cup {tid}
              /\ thread_names'[tid] = name
              /\ \A t \in DOMAIN thread_names \ {tid} :
                    thread_names'[t] = thread_names[t]
              /\ Insert(thread_names', tid, name) = thread_names'
              /\ snapshots' = snapshots
              /\ memory_rss_peak' = memory_rss_peak
              /\ memory_swap_peak' = memory_swap_peak]_vars

C16_Witness ==
    \E t \in DOMAIN thread_names :
        /\ thread_names[t] = "worker"
        /\ Cardinality(DOMAIN thread_names) = 2
        /\ Len(snapshots) >= 2
        /\ \A i \in 1..Len(snapshots) :
              /\ t \in DOMAIN snapshots[i].threads
              /\ snapshots[i].threads[t].user_time > 0
        /\ memory_rss_peak > 0

(* C17: the per-thread map of every retained Snapshot holds registered    *)
(* ids only, and thread_report() yields entries for registered ids only.  *)
C17_OnlyRegisteredIds ==
    /\ \A i \in 1..Len(snapshots) :
          DOMAIN snapshots[i].threads \subseteq DOMAIN thread_names
    /\ thread_report.kind = "Some"
          => DOMAIN thread_report.items \subseteq DOMAIN thread_names

C17_Witness ==
    /\ Len(snapshots) >= 2
    /\ thread_report.kind = "Some"
    /\ \E t \in untracked, u \in DOMAIN thread_names :
          /\ t \notin DOMAIN thread_names
          /\ DOMAIN thread_report.items = {u}

(* The sources of a scan in the order of the claim, the threads in the    *)
(* order the registry iterates; the sources of inp that fail, and the     *)
(* error each gives                                                        *)
SourceOrder(order) ==
    <<Src("uptime", NoTid), Src("stat", NoTid)>>
    \o [i \in 1..Len(order) |-> Src("task", order[i])]
    \o <<Src("status", NoTid), Src("io", NoTid)>>

SourceFails(inp, s) ==
    CASE s.src = "uptime" -> inp.uptime.err # "none"
      [] s.src = "stat"   -> inp.stat.err # "none"
      [] s.src = "task"   -> inp.tstat[s.tid].err # "none"
      [] s.src = "status" -> inp.status = BadStatusText
      [] s.src = "io"     -> inp.io = BadIoText

SourceError(inp, s) ==
    CASE s.src = "uptime" -> Error("Uptime", NoTid, inp.uptime.err)
      [] s.src = "stat"   -> Error("Stat", NoTid, inp.stat.err)
      [] s.src = "task"   -> Error("ThreadStat", s.tid, inp.tstat[s.tid].err)
      [] s.src = "status" -> Error("Status", NoTid, "BadUnit")
      [] s.src = "io"     -> Error("IoStat", NoTid, "ParseInt")

(* C18: scan() reads uptime, the stat file of the process, the stat file  *)
(* of each registered thread, the status file and the io file in that     *)
(* order up to the first source that fails, returns the error of that     *)
(* source and reads no later source.                                       *)
C18_FirstFailureInOrder ==
    [][\A inp \in OrderInputs(now + 1), order \in Orders(DOMAIN thread_names) :
          Scan(inp, order) =>
              LET all == SourceOrder(order)
                  failing == {i \in DOMAIN all : SourceFails(inp, all[i])}
              IN  IF failing = {}
                  THEN result' = Ok /\ opened' = all
                  ELSE LET k == CHOOSE i \in failing :
                                    \A j \in failing : i <= j
                       IN  /\ result' = SourceError(inp, all[k])
                           /\ opened' = SubSeq(all, 1, k)]_vars

C18_Witness ==
    /\ Cardinality(DOMAIN thread_names) = 2
    /\ Len(opened) = 4
    /\ opened[3].src = "task"
    /\ opened[4].src = "task"
    /\ result = Error("ThreadStat", opened[4].tid, "Io")

(* C19, as stated: no step other than a scan changes the Store.           *)
C19_OnlyScanChangesStore ==
    [][~IsScan => snapshots' = snapshots]_vars

(* C19: a step other than a scan keeps the length and the order of the    *)
(* Store and every field of every retained Snapshot, but for the entries  *)
(* of the per-thread maps whose id the step removed from the registry; a  *)
(* step that removes no id from the registry leaves the Store as it is.   *)
C19_OnlyScanAndUntrackChangeStore ==
    [][~IsScan =>
          /\ Len(snapshots') = Len(snapshots)
          /\ \A i \in 1..Len(snapshots) :
                snapshots'[i] =
                    [snapshots[i] EXCEPT !.threads =
                        [t \in DOMAIN snapshots[i].threads
                                 \ (DOMAIN thread_names \ DOMAIN thread_names')
                            |-> snapshots[i].threads[t]]]]_vars

C19_Witness ==
    /\ Len(snapshots) >= 2
    /\ \E t \in untracked, u \in DOMAIN thread_names :
          /\ t \notin DOMAIN thread_names
          /\ \A i \in 1..Len(snapshots) :
                /\ DOMAIN snapshots[i].threads = {u}
                /\ snapshots[i].threads[u].user_time = snapshots[i].instant

(* C20: after a scan that commits a Snapshot next to another one, the     *)
(* process CPU usage of the Report is 100 times the growth of user plus   *)
(* system time of the process since the Snapshot committed before,        *)
(* divided by the growth of uptime in hundredths of a second; Snapshots   *)
(* older than that one have no part in it.                                 *)
C20_ProcessCpuFromLastTwo ==
    [][\A inp \in CpuInputs(now + 1) :
          (Scan(inp, <<>>) /\ Len(snapshots) >= 1) =>
              /\ report'.kind = "Some"
              /\ report'.val.process_cpu_usage =
                     FDiv(100 * (OwnTime(inp.stat.info)
                                    - OwnTime(Last(snapshots).process)),
                          inp.uptime.uptime - Last(snapshots).uptime)]_vars

C20_Witness ==
    /\ Len(snapshots) >= 3
    /\ UptimeDelta > 0
    /\ OwnTime(snapshots[1].process) < OwnTime(snapshots[2].process)
    /\ report.kind = "Some"
    /\ report.val.process_cpu_usage.kind = "num"
    /\ report.val.process_cpu_usage.n > 0

(* What the words of a stat line stand for *)
WordValue(w) ==
    CASE w = <<"1">> -> 1 [] w = <<"5">> -> 5 [] w = <<"2", "0">> -> 20
      [] OTHER -> 0

(* C21: read_stat takes user, system, children's user and children's      *)
(* system time from the 12th to 15th field after the last ")" of the      *)
(* line, whatever the name holds; a line without ")" or with fewer than   *)
(* 15 fields after the last ")" gives an error, BadFormat unless a field  *)
(* it reached before is not a number.                                      *)
C21_StatFields ==
    parsed # NotRead =>
        \A comm \in Comms, n \in 0..MaxFields,
           user \in UserWords, system \in SystemWords :
            text = StatLine(comm, n, user, system) =>
                IF comm = <<"a">> THEN parsed = StatErr("BadFormat")
                ELSE IF n < 15
                THEN IF n >= 12 /\ user = <<"x">>
                     THEN parsed.err # "none"
                     ELSE parsed = StatErr("BadFormat")
                ELSE IF user = <<"x">> THEN parsed.err # "none"
                ELSE parsed = StatOk([user_time |-> WordValue(user),
                                      system_time |-> WordValue(system),
                                      child_user_time |-> 3,
                                      child_system_time |-> 4])

C21_Witness ==
    /\ text = StatLine(<<"(", "a", ")", " ", "7", " ", "7", ")">>,
                       15, <<"2", "0">>, <<"5">>)
    /\ parsed = StatOk([user_time |-> 20, system_time |-> 5,
                        child_user_time |-> 3, child_system_time |-> 4])

(* C22: a scan that fails leaves report() and thread_report() as they     *)
(* were before it, at capacity too, and a scan whose reads all succeed    *)
(* returns Ok and makes its Snapshot the most recent one of the Store,    *)
(* however many scans failed before.                                       *)
C22_FailedScanKeepsReports ==
    [][/\ (IsScan /\ result'.kind # "Ok")
             => /\ report' = report
                /\ thread_report' = thread_report
        /\ \A order \in Orders(DOMAIN thread_names) :
              Scan(GoodInput(now + 1, now + 1, now + 1), order)
                  => /\ result' = Ok
                     /\ Last(snapshots').instant = now'
                     /\ Last(history').instant = now']_vars

C22_Witness ==
    /\ result.kind # "Ok"
    /\ Len(history) >= num_snapshots
    /\ Len(snapshots) = num_snapshots - 1
    /\ FailedScans = MaxFailed
    /\ report.kind = "Some"
    /\ thread_report.kind = "Some"
    /\ DOMAIN thread_report.items # {}

(* C24: memory_rss_peak is at least the memory_rss of every retained      *)
(* Snapshot and memory_swap_peak at least every retained memory_swap, so  *)
(* in every Report each peak is at least the value next to it.            *)
C24_PeaksCoverStore ==
    /\ \A i \in 1..Len(snapshots) :
          /\ memory_rss_peak >= snapshots[i].memory_rss
          /\ memory_swap_peak >= snapshots[i].memory_swap
    /\ report.kind = "Some"
          => /\ report.val.memory_rss_peak >= report.val.memory_rss
             /\ report.val.memory_swap_peak >= report.val.memory_swap

C24_Witness ==
    /\ report.kind = "Some"
    /\ report.val.memory_rss_peak > report.val.memory_rss
    /\ report.val.memory_swap_peak > report.val.memory_swap
    /\ \E i \in 1..Len(snapshots) :
          snapshots[i].memory_rss = memory_rss_peak
    /\ \E i \in 1..Len(snapshots) :
          snapshots[i].memory_swap = memory_swap_peak

(* The number the last line of lines with the key shows, 0 without one,   *)
(* and the counter of a key of the io file                                 *)
KeyValue(lines, key) ==
    LET at == {i \in DOMAIN lines : lines[i].key = key} IN
    IF at = {} THEN 0
    ELSE lines[CHOOSE i \in at : \A j \in at : j <= i].toks[1].val

IoCounter(snap, key) ==
    CASE key = "rchar" -> snap.read_bytes
      [] key = "wchar" -> snap.write_bytes
      [] key = "syscr" -> snap.read_ops
      [] key = "syscw" -> snap.write_ops
      [] key = "read_bytes" -> snap.read_disk_bytes
      [] key = "write_bytes" -> snap.write_disk_bytes
      [] key = "cancelled_write_bytes" -> snap.write_cancelled_bytes

(* C23: the memory and IO counters of the Snapshot a scan commits are the *)
(* ones of the text that scan read, 0 for a key the text lacks, whether   *)
(* the Snapshot is new or recycled.                                        *)
C23_CountersFromThisScan ==
    [][\A inp \in RecycleInputs(now + 1) :
          (Scan(inp, <<>>) /\ result' = Ok) =>
              /\ \A key \in MemoryKeys :
                    Counter(Last(snapshots'), key)
                        = 1024 * KeyValue(inp.status.lines, key)
              /\ \A key \in IoKeys :
                    IoCounter(Last(snapshots'), key)
                        = KeyValue(inp.io.lines, key)]_vars

====
